---- MODULE Spec2Model ----
(***************************************************************************)
(* A model of package hook (logrus-stackdriver-hook): the two logrus hooks *)
(* Log and ErrorReport, the entry/report construction they perform, and    *)
(* the stack sanitizer chopstack.                                          *)
(*                                                                         *)
(* Byte slices are sequences of chunks.  A chunk stands for a fixed run of *)
(* bytes; the chunk alphabet is prefix-free (no chunk is a prefix of       *)
(* another), so a byte-level prefix test / split on '\n' of the encoded    *)
(* text coincides with the chunk-level one.                                *)
(***************************************************************************)
EXTENDS Integers, Sequences, FiniteSets, TLC

\* ----------------------------------------------------------------- bounds
\* most lines a raw trace given to chopstack is built from
MaxLines == 8
\* most events emitted through the pipeline in one behaviour
MaxEvents == 2
\* most logrus-internal frame pairs in a stack captured inside Fire
MaxInternal == 2

NIL == "nil"

\* ------------------------------------------------------------ byte slices
NL == "\n"

\* the literal of bytes.HasPrefix in chopstack, "github.com/sirupsen/logrus.",
\* as the two chunks "github.com/sirupsen/" and "logrus."
LogrusPrefix == <<"github.com/sirupsen/", "logrus.">>

\* bytes.HasPrefix(s, prefix)
HasPrefix(s, prefix) ==
    /\ Len(s) >= Len(prefix)
    /\ SubSeq(s, 1, Len(prefix)) = prefix

\* index (1-based) of the first NL of s, 0 when there is none
RECURSIVE IndexNL(_, _)
IndexNL(s, from) ==
    IF from > Len(s) THEN 0
    ELSE IF s[from] = NL THEN from
    ELSE IndexNL(s, from + 1)

\* bytes.Split(s, []byte{'\n'}): Count(s, '\n') + 1 pieces, none holding '\n'
RECURSIVE Split(_)
Split(s) ==
    LET i == IndexNL(s, 1) IN
    IF i = 0 THEN <<s>>
    ELSE <<SubSeq(s, 1, i - 1)>> \o Split(SubSeq(s, i + 1, Len(s)))

\* bytes.Join(lines, []byte("\n"))
RECURSIVE Join(_)
Join(lines) ==
    IF Len(lines) = 0 THEN <<>>
    ELSE IF Len(lines) = 1 THEN lines[1]
    ELSE lines[1] \o <<NL>> \o Join(Tail(lines))

\* lines[i] of a Go slice (0-based)
At(lines, i) == lines[i + 1]

\* lines[i:] of a Go slice (0-based), for 0 <= i <= len(lines)
From(lines, i) == SubSeq(lines, i + 1, Len(lines))

\* ------------------------------------------------------------- chopstack
PANIC == [panic |-> TRUE, out |-> <<>>]
Return(b) == [panic |-> FALSE, out |-> b]

\* the for loop of chopstack: the index it breaks at, or -1 when lines[i]
\* is read with i >= len(lines) (Go panics: index out of range)
RECURSIVE chopScan(_, _)
chopScan(lines, i) ==
    IF i >= Len(lines) THEN -1
    ELSE IF ~HasPrefix(At(lines, i), LogrusPrefix) THEN i
    ELSE chopScan(lines, i + 2)

\* mutant: the scan advances one line at a time
RECURSIVE chopScanStep1(_, _)
chopScanStep1(lines, i) ==
    IF i >= Len(lines) THEN -1
    ELSE IF ~HasPrefix(At(lines, i), LogrusPrefix) THEN i
    ELSE chopScanStep1(lines, i + 1)

chopstack_step1(buf) ==
    LET lines == Split(buf)
        i == chopScanStep1(lines, 3)
    IN IF i < 0 THEN PANIC
       ELSE Return(Join(<<At(lines, 0)>> \o From(lines, i)))

\* mutant: the header line is not put back
chopstack_noHeader(buf) ==
    LET lines == Split(buf)
        i == chopScan(lines, 3)
    IN IF i < 0 THEN PANIC
       ELSE Return(Join(From(lines, i)))

chopstack(buf) ==
    LET lines == Split(buf)
        i == chopScan(lines, 3)
    IN IF i < 0 THEN PANIC
       ELSE Return(Join(<<At(lines, 0)>> \o From(lines, i)))


\* ---------------------------------------------------------------- levels
\* logrus.Level: the seven levels of logrus and one value outside them
Levels == {"panic", "fatal", "error", "warn", "info", "debug", "trace", "unknown"}

\* a Go slice header over a backing array of `arrays`; NilSlice is nil
NilSlice == [arr |-> "nil", len |-> 0]
ArrIds == {"nil", "DefaultErrorLevels", "DefaultLogLevels", "errArgs", "logArgs"}

\* var DefaultErrorLevels = []logrus.Level{PanicLevel, FatalLevel, ErrorLevel}
DefaultErrorLevelsInit == <<"panic", "fatal", "error">>
DefaultErrorLevels == [arr |-> "DefaultErrorLevels", len |-> Len(DefaultErrorLevelsInit)]

\* var DefaultLogLevels = []logrus.Level{WarnLevel, InfoLevel}
DefaultLogLevelsInit == <<"warn", "info">>
DefaultLogLevels == [arr |-> "DefaultLogLevels", len |-> Len(DefaultLogLevelsInit)]

\* ---------------------------------------------------------- field values
\* an interface{} value of logrus.Fields, by dynamic type
StrVal(x) == [kind |-> "string", s |-> x, n |-> 0]
IntVal(x) == [kind |-> "int", s |-> "", n |-> x]
BoolVal(b) == [kind |-> "bool", s |-> "", n |-> IF b THEN 1 ELSE 0]
NilVal == [kind |-> "nil", s |-> "", n |-> 0]

Digit(d) ==
    CASE d = 0 -> "0" [] d = 1 -> "1" [] d = 2 -> "2" [] d = 3 -> "3"
      [] d = 4 -> "4" [] d = 5 -> "5" [] d = 6 -> "6" [] d = 7 -> "7"
      [] d = 8 -> "8" [] d = 9 -> "9"

\* the decimal form of an integer, as %v prints it
RECURSIVE Itoa(_)
Itoa(n) ==
    IF n < 0 THEN "-" \o Itoa(-n)
    ELSE IF n < 10 THEN Digit(n)
    ELSE Itoa(n \div 10) \o Digit(n % 10)

\* fmt.Sprintf("%v", v)
Sprintv(v) ==
    CASE v.kind = "string" -> v.s
      [] v.kind = "int" -> Itoa(v.n)
      [] v.kind = "bool" -> (IF v.n = 1 THEN "true" ELSE "false")
      [] v.kind = "nil" -> "<nil>"

\* ---------------------------------------------------------- Log.toEntry
\* mutant: panic is reported as Error
levelToSeverity_panicError(l) ==
    CASE l = "info" -> "Info"
      [] l = "warn" -> "Warning"
      [] l \in {"error", "panic"} -> "Error"
      [] l = "fatal" -> "Critical"
      [] OTHER -> "Default"

levelToSeverity(l) ==
    CASE l = "info" -> "Info"
      [] l = "warn" -> "Warning"
      [] l = "error" -> "Error"
      [] l \in {"panic", "fatal"} -> "Critical"
      [] OTHER -> "Default"

\* mutant: only the text fields become labels
toEntry_textOnly(e) ==
    [Timestamp |-> e.Time,
     Severity |-> levelToSeverity(e.Level),
     Payload |-> e.Message,
     Labels |-> [k \in {x \in DOMAIN e.Data : e.Data[x].kind = "string"} |-> e.Data[k].s]]

toEntry(e) ==
    [Timestamp |-> e.Time,
     Severity |-> levelToSeverity(e.Level),
     Payload |-> e.Message,
     Labels |-> [k \in DOMAIN e.Data |->
                    IF e.Data[k].kind = "string" THEN e.Data[k].s
                    ELSE Sprintv(e.Data[k])]]

\* ------------------------------------------------------------- the hooks
NoHook == [client |-> "none", levels |-> NilSlice]

\* mutant: the levels given are ignored
NewErrorReport_alwaysDefault(client, levels) ==
    [client |-> client, levels |-> DefaultErrorLevels]

NewErrorReport(client, levels) ==
    [client |-> client,
     levels |-> IF levels = NilSlice THEN DefaultErrorLevels ELSE levels]

NewLog(logger, levels) ==
    [client |-> logger,
     levels |-> IF levels = NilSlice THEN DefaultLogLevels ELSE levels]

\* (h *ErrorReport) Levels / (h *Log) Levels
HookLevels(h) == h.levels

\* what a call of Fire did: whether it panicked, what it returned, and the
\* entries it handed to its sink, in order
FireResult(ret, submits) == [panic |-> FALSE, ret |-> ret, submits |-> submits]
FirePanic == [panic |-> TRUE, ret |-> NIL, submits |-> <<>>]

\* mutant: the entry is handed to the sink again when the sink failed
LogFire_retry(h, e, sinkErr) ==
    FireResult(NIL, IF sinkErr = NIL THEN <<toEntry(e)>> ELSE <<toEntry(e), toEntry(e)>>)

\* (h *Log) Fire.  sinkErr is the outcome of the sink's submission, which
\* Logger.Log does not return.
LogFire(h, e, sinkErr) ==
    FireResult(NIL, <<toEntry(e)>>)

\* mutant: a user that is not text is dropped
ErrorReportFire_textUser(h, e, stk, sinkErr) ==
    LET callerStack == chopstack(stk)
        user == IF "user" \in DOMAIN e.Data /\ e.Data["user"].kind = "string"
                THEN e.Data["user"].s ELSE ""
    IN IF callerStack.panic THEN FirePanic
       ELSE FireResult(NIL, <<[Error |-> e.Message, Stack |-> callerStack.out, User |-> user]>>)

\* mutant: the sink's error is returned
ErrorReportFire_returnsSinkErr(h, e, stk, sinkErr) ==
    LET callerStack == chopstack(stk)
        user == IF "user" \in DOMAIN e.Data
                THEN (IF e.Data["user"].kind = "string" THEN e.Data["user"].s
                      ELSE Sprintv(e.Data["user"]))
                ELSE ""
    IN IF callerStack.panic THEN FirePanic
       ELSE FireResult(sinkErr, <<[Error |-> e.Message, Stack |-> callerStack.out, User |-> user]>>)

\* (h *ErrorReport) Fire.  stk is what runtime.Stack wrote, sinkErr the
\* outcome of the sink's submission, which Client.Report does not return.
ErrorReportFire(h, e, stk, sinkErr) ==
    LET callerStack == chopstack(stk)
        user == IF "user" \in DOMAIN e.Data
                THEN (IF e.Data["user"].kind = "string" THEN e.Data["user"].s
                      ELSE Sprintv(e.Data["user"]))
                ELSE ""
    IN IF callerStack.panic THEN FirePanic
       ELSE FireResult(NIL, <<[Error |-> e.Message, Stack |-> callerStack.out, User |-> user]>>)


\* ------------------------------------------------------------------ state
VARIABLES
    arrays,     \* the backing arrays of the []logrus.Level slices
    logHook,    \* the *Log registered with logrus.AddHook, or NoHook
    errHook,    \* the *ErrorReport registered with logrus.AddHook, or NoHook
    logGiven,   \* history: the levels NewLog was called with
    errGiven,   \* history: the levels NewErrorReport was called with
    nEmitted,   \* events emitted so far
    event,      \* the event emitted last
    stack,      \* what runtime.Stack wrote in the last ErrorReport.Fire
    logCall,    \* the call of Log.Fire made for the last event
    errCall,    \* the call of ErrorReport.Fire made for the last event
    logCount,   \* entries the log sink was handed so far
    errCount,   \* reports the error sink was handed so far
    wantLog,    \* history: events emitted at a level of the Log hook
    wantErr,    \* history: events emitted at a level of the ErrorReport hook
    rawLines,   \* the lines of the raw trace given to chopstack
    buf,        \* the raw trace given to chopstack
    res         \* what chopstack did with buf

hookVars == <<arrays, logHook, errHook, logGiven, errGiven>>
emitVars == <<nEmitted, event, stack, logCall, errCall, logCount, errCount, wantLog, wantErr>>
chopVars == <<rawLines, buf, res>>
vars == <<arrays, logHook, errHook, logGiven, errGiven, nEmitted, event, stack,
          logCall, errCall, logCount, errCount, wantLog, wantErr, rawLines, buf, res>>

\* ---------------------------------------------------------------- inputs
NotGiven == [explicit |-> FALSE, levels |-> <<>>]
Given(ls) == [explicit |-> TRUE, levels |-> ls]

AllLevels == <<"panic", "fatal", "error", "warn", "info", "debug", "trace", "unknown">>

\* NewLog(logger), NewLog(logger, levels...) with every level, and with an
\* empty non-nil slice
LogGivenChoices == {NotGiven, Given(AllLevels), Given(<<>>)}

\* NewErrorReport(client), NewErrorReport(client, WarnLevel, ErrorLevel)
ErrGivenChoices == {NotGiven, Given(<<"warn", "error">>)}

Keys == {"user", "req"}
Values == {StrVal("howard"), StrVal("42"), IntVal(42), BoolVal(TRUE), NilVal}
Messages == {"send user err: do bar: do foo", "a warning will be sent"}
Times == {1, 2}

\* logrus.Fields: any value under "user", a number or its text under "req"
DataMaps ==
    {d \in UNION {[D -> Values] : D \in SUBSET Keys} :
        "req" \in DOMAIN d => d["req"] \in {IntVal(42), StrVal("42")}}

Events ==
    {[Level |-> l, Message |-> m, Time |-> t, Data |-> d] :
        l \in Levels, m \in Messages, t \in Times, d \in DataMaps}

\* the events of a run of several: every level, with and without a user
SeqEvents ==
    {[Level |-> l, Message |-> "a warning will be sent", Time |-> 1, Data |-> d] :
        l \in Levels, d \in {[k \in {} |-> NilVal], [k \in {"user"} |-> StrVal("howard")]}}

NoEvent == [Level |-> "none", Message |-> "", Time |-> 0, Data |-> [k \in {} |-> NilVal]]

SinkOutcomes == {NIL, "SinkError"}

\* the lines of a trace as runtime.Stack writes it
Header == <<"goroutine">>
Loc == <<"\t">>
FireCall == <<"github.com/hayeah/logrus-stackdriver-hook.">>
LogrusCall == LogrusPrefix \o <<"main.">>
MainCall == <<"main.">>
OtherCall == <<"github.com/sirupsen/", "main.">>

RECURSIVE Pairs(_, _)
Pairs(call, k) == IF k = 0 THEN <<>> ELSE <<call, Loc>> \o Pairs(call, k - 1)

\* the frames of the application under logrus, and the empty line after
\* the last '\n'
AppFrames == {<<MainCall, Loc, <<>> >>, <<OtherCall, Loc, MainCall, Loc, <<>> >>}

StackLines(k, app) == <<Header, FireCall, Loc>> \o Pairs(LogrusCall, k) \o app

\* runtime.Stack inside Fire: the header, Fire's own frame, the frames of
\* logrus that called it, the frames of the application
Stacks == {Join(StackLines(k, app)) : k \in 0..MaxInternal, app \in AppFrames}

\* the lines a raw trace given to chopstack is drawn from
LineSet == {<<>>, MainCall, OtherCall, LogrusCall}

RawTraces == UNION {[1..n -> LineSet] : n \in 1..MaxLines}

\* ------------------------------------------------------------------ Init
NoCall == [fired |-> FALSE, sinkErr |-> NIL, panic |-> FALSE, ret |-> NIL, submits |-> <<>>]
Called(r, sinkErr) ==
    [fired |-> TRUE, sinkErr |-> IF r.submits = <<>> THEN NIL ELSE sinkErr,
     panic |-> r.panic, ret |-> r.ret, submits |-> r.submits]

Pending == [done |-> FALSE, panic |-> FALSE, out |-> <<>>]

InitHooks ==
    /\ arrays = [a \in ArrIds |->
                    CASE a = "DefaultErrorLevels" -> DefaultErrorLevelsInit
                      [] a = "DefaultLogLevels" -> DefaultLogLevelsInit
                      [] OTHER -> <<>>]
    /\ logHook = NoHook
    /\ errHook = NoHook
    /\ logGiven = NotGiven
    /\ errGiven = NotGiven

InitEmit ==
    /\ nEmitted = 0
    /\ event = NoEvent
    /\ stack = <<>>
    /\ logCall = NoCall
    /\ errCall = NoCall
    /\ logCount = 0
    /\ errCount = 0
    /\ wantLog = 0
    /\ wantErr = 0

Init ==
    /\ InitHooks
    /\ InitEmit
    /\ rawLines = <<>>
    /\ buf = <<>>
    /\ res = Pending

InitChop ==
    /\ InitHooks
    /\ InitEmit
    /\ rawLines \in RawTraces
    /\ buf = Join(rawLines)
    /\ res = Pending

\* --------------------------------------------------------------- actions
\* the test logrus makes against hook.Levels() for an event at level l
Accepts(h, l) ==
    \E i \in 1..HookLevels(h).len : arrays[HookLevels(h).arr][i] = l

\* logrus.AddHook(hook.NewLog(logger, levels...))
AddLogHook(given) ==
    /\ logHook = NoHook
    /\ IF given.explicit
       THEN /\ arrays' = [arrays EXCEPT !["logArgs"] = given.levels]
            /\ logHook' = NewLog("logger", [arr |-> "logArgs", len |-> Len(given.levels)])
       ELSE /\ arrays' = arrays
            /\ logHook' = NewLog("logger", NilSlice)
    /\ logGiven' = given
    /\ UNCHANGED <<errHook, errGiven, emitVars, chopVars>>

\* logrus.AddHook(hook.NewErrorReport(errclient, levels...))
AddErrorHook(given) ==
    /\ errHook = NoHook
    /\ IF given.explicit
       THEN /\ arrays' = [arrays EXCEPT !["errArgs"] = given.levels]
            /\ errHook' = NewErrorReport("errclient", [arr |-> "errArgs", len |-> Len(given.levels)])
       ELSE /\ arrays' = arrays
            /\ errHook' = NewErrorReport("errclient", NilSlice)
    /\ errGiven' = given
    /\ UNCHANGED <<logHook, logGiven, emitVars, chopVars>>

\* one event through the pipeline: logrus fires every registered hook whose
\* Levels() hold the event's level
Emit(e, stk, logErr, errErr) ==
    /\ nEmitted < MaxEvents
    /\ logHook # NoHook
    /\ errHook # NoHook
    /\ nEmitted' = nEmitted + 1
    /\ event' = e
    /\ logCall' = IF Accepts(logHook, e.Level)
                  THEN Called(LogFire(logHook, e, logErr), logErr)
                  ELSE NoCall
    /\ errCall' = IF Accepts(errHook, e.Level)
                  THEN Called(ErrorReportFire(errHook, e, stk, errErr), errErr)
                  ELSE NoCall
    /\ stack' = IF Accepts(errHook, e.Level) THEN stk ELSE <<>>
    /\ logCount' = logCount + Len(logCall'.submits)
    /\ errCount' = errCount + Len(errCall'.submits)
    /\ wantLog' = wantLog + (IF e.Level \in {arrays[logHook.levels.arr][i] : i \in 1..logHook.levels.len} THEN 1 ELSE 0)
    /\ wantErr' = wantErr + (IF e.Level \in {arrays[errHook.levels.arr][i] : i \in 1..errHook.levels.len} THEN 1 ELSE 0)
    /\ UNCHANGED <<hookVars, chopVars>>

\* chopstack(buf) on a raw trace
Chop ==
    /\ ~res.done
    /\ res' = [done |-> TRUE, panic |-> chopstack(buf).panic, out |-> chopstack(buf).out]
    /\ UNCHANGED <<hookVars, emitVars, rawLines, buf>>

\* the hooks registered, then any run of events
Next ==
    \/ \E g \in LogGivenChoices : AddLogHook(g)
    \/ \E g \in ErrGivenChoices : AddErrorHook(g)
    \/ \E e \in SeqEvents, stk \in Stacks, lo \in SinkOutcomes, eo \in SinkOutcomes :
          Emit(e, stk, lo, eo)

Spec == Init /\ [][Next]_vars

\* the hooks registered, then one event of any content
NextFire ==
    \/ \E g \in LogGivenChoices : AddLogHook(g)
    \/ \E g \in ErrGivenChoices : AddErrorHook(g)
    \/ \E e \in Events, stk \in Stacks, o \in SinkOutcomes :
          nEmitted = 0 /\ Emit(e, stk, o, o)

SpecFire == Init /\ [][NextFire]_vars

NextChop == Chop

SpecChop == InitChop /\ [][NextChop]_vars


\* ------------------------------------------- clients writing level slices
\* the levels a client stores into a slice it can reach
WriteValues == {"debug"}

\* DefaultErrorLevels[i] = l, DefaultLogLevels[i] = l: the package's
\* exported slices, written by a client of the package
WriteDefault(a, i, l) ==
    /\ a \in {"DefaultErrorLevels", "DefaultLogLevels"}
    /\ i \in 1..Len(arrays[a])
    /\ arrays' = [arrays EXCEPT ![a][i] = l]
    /\ UNCHANGED <<logHook, errHook, logGiven, errGiven, emitVars, chopVars>>

\* h.Levels()[i] = l: the slice Levels returns, written by its caller
WriteReturned(h, i, l) ==
    /\ h # NoHook
    /\ i \in 1..HookLevels(h).len
    /\ arrays' = [arrays EXCEPT ![HookLevels(h).arr][i] = l]
    /\ UNCHANGED <<logHook, errHook, logGiven, errGiven, emitVars, chopVars>>

AliasEvents ==
    {[Level |-> l, Message |-> "a warning will be sent", Time |-> 1, Data |-> [k \in {} |-> NilVal]] :
        l \in {"error", "warn", "debug"}}

\* the hooks registered, events emitted, and a client writing the slices
\* the package hands out
NextAlias ==
    \/ \E g \in {NotGiven, Given(<<"warn">>)} : AddLogHook(g)
    \/ \E g \in {NotGiven} : AddErrorHook(g)
    \/ \E e \in AliasEvents : Emit(e, Join(StackLines(1, <<MainCall, Loc, <<>> >>)), NIL, NIL)
    \/ \E a \in {"DefaultErrorLevels", "DefaultLogLevels"}, i \in 1..3, l \in WriteValues :
          WriteDefault(a, i, l)
    \/ \E h \in {logHook, errHook}, i \in 1..3, l \in WriteValues : WriteReturned(h, i, l)

SpecAlias == Init /\ [][NextAlias]_vars

\* ------------------------------------------------------------ the claims
Range(f) == {f[i] : i \in 1..Len(f)}

\* the levels a hook accepts
AcceptSet(h) == {l \in Levels : Accepts(h, l)}

\* the entry / report handed to the sink by the last call
LogEntry == logCall.submits[1]
ErrReport == errCall.submits[1]

Internal(line) ==
    /\ Len(line) >= 2
    /\ line[1] = "github.com/sirupsen/"
    /\ line[2] = "logrus."

\* header, the forwarder's own frame, exactly k internal pairs from index 3
\* (the fourth line), then a line that is not internal
Shape(lines, k) ==
    /\ Len(lines) >= 4 + 2 * k
    /\ \A j \in 0..(k - 1) : Internal(lines[4 + 2 * j])
    /\ ~Internal(lines[4 + 2 * k])

\* the scan of call-site lines from index 3 runs off the end
OutOfRange(lines) == \A k \in 0..Len(lines) : ~Shape(lines, k)

\* C2 as stated: chopstack never fails, and when its scan would go out of
\* range it returns the header followed by the lines from index 3 on.
ChopBoundsSafe ==
    res.done =>
        /\ ~res.panic
        /\ OutOfRange(rawLines) =>
              res.out = Join(<<rawLines[1]>> \o SubSeq(rawLines, 4, Len(rawLines)))

\* C3: for header H, the forwarder's frame, exactly k internal pairs and then
\* lines L that do not begin with an internal line, chopstack returns H and L
\* joined by newlines.
SkipProperty ==
    res.done =>
        \A k \in 0..Len(rawLines) :
            Shape(rawLines, k) =>
                /\ ~res.panic
                /\ res.out = Join(<<rawLines[1]>> \o SubSeq(rawLines, 4 + 2 * k, Len(rawLines)))

\* two internal pairs were skipped
SkipWitness ==
    /\ res.done
    /\ ~res.panic
    /\ Shape(rawLines, 2)
    /\ rawLines[1] # <<>>

\* C4: for a valid trace (its scan stops in range) chopstack returns, and
\* whenever it returns the first line of the output is the first line of the
\* input.
HeaderKept ==
    res.done =>
        /\ (\E k \in 0..Len(rawLines) : Shape(rawLines, k)) => ~res.panic
        /\ ~res.panic => Split(res.out)[1] = rawLines[1]

\* a trace with a non-empty header and one internal pair went through
HeaderWitness ==
    /\ res.done
    /\ ~res.panic
    /\ Shape(rawLines, 1)
    /\ rawLines[1] = MainCall
    /\ rawLines[4] # rawLines[1]

\* C5: a hook accepts exactly the levels it was constructed with, or, when
\* constructed with none, {panic, fatal, error} (ErrorReport) and
\* {warn, info} (Log); Levels() returns the levels given; the pipeline fires
\* a hook for an event exactly when its level is in that set.
SeverityFilter ==
    /\ errHook # NoHook =>
          /\ AcceptSet(errHook) = (IF errGiven.explicit THEN Range(errGiven.levels)
                                   ELSE {"panic", "fatal", "error"})
          /\ errGiven.explicit =>
                SubSeq(arrays[HookLevels(errHook).arr], 1, HookLevels(errHook).len) = errGiven.levels
    /\ logHook # NoHook =>
          /\ AcceptSet(logHook) = (IF logGiven.explicit THEN Range(logGiven.levels)
                                   ELSE {"warn", "info"})
          /\ logGiven.explicit =>
                SubSeq(arrays[HookLevels(logHook).arr], 1, HookLevels(logHook).len) = logGiven.levels
    /\ nEmitted > 0 =>
          /\ errCall.fired <=> event.Level \in (IF errGiven.explicit THEN Range(errGiven.levels)
                                                ELSE {"panic", "fatal", "error"})
          /\ logCall.fired <=> event.Level \in (IF logGiven.explicit THEN Range(logGiven.levels)
                                                ELSE {"warn", "info"})

\* a debug event with an explicit Log hook and a default ErrorReport hook
FilterWitness ==
    /\ logGiven.explicit /\ logGiven.levels # <<>>
    /\ errHook # NoHook /\ ~errGiven.explicit
    /\ event.Level = "debug"
    /\ logCall.fired
    /\ ~errCall.fired

\* C6: every event at a level of a hook hands that hook's sink exactly one
\* entry, an event at a level of neither hands nothing; after any run each
\* sink was handed as many entries as events matched its hook.
OneSubmissionPerEvent ==
    /\ logCount = wantLog
    /\ errCount = wantErr
    /\ nEmitted > 0 =>
          /\ Len(logCall.submits) = (IF event.Level \in AcceptSet(logHook) THEN 1 ELSE 0)
          /\ Len(errCall.submits) = (IF event.Level \in AcceptSet(errHook) THEN 1 ELSE 0)

\* two events, of which each sink was handed one, the log sink failing
SubmissionWitness ==
    /\ nEmitted >= 2
    /\ logCount = 1
    /\ errCount = 1
    /\ logCall.sinkErr = "SinkError"

\* the mapping of C7
ClaimSeverity(l) ==
    CASE l = "info" -> "Info"
      [] l = "warn" -> "Warning"
      [] l = "error" -> "Error"
      [] l = "panic" -> "Critical"
      [] l = "fatal" -> "Critical"
      [] l \in {"debug", "trace", "unknown"} -> "Default"

\* C7: levelToSeverity is total with info -> Info, warn -> Warning,
\* error -> Error, panic and fatal -> Critical and every other level ->
\* Default, and the entry Log.Fire builds carries it for the event's level.
SeverityMapping ==
    /\ \A l \in Levels : levelToSeverity(l) = ClaimSeverity(l)
    /\ logCall.fired => LogEntry.Severity = ClaimSeverity(event.Level)

\* an entry was built for a panic event
SeverityWitness ==
    /\ logCall.fired
    /\ event.Level = "panic"
    /\ LogEntry.Severity = "Critical"

\* the text of a field value as C8 and C9 state it
ClaimText(v) ==
    CASE v.kind = "string" -> v.s
      [] v = IntVal(42) -> "42"
      [] v = BoolVal(TRUE) -> "true"
      [] v = NilVal -> "<nil>"

\* C8: the labels of the entry have the keys of the event's fields, each a
\* string: a text field unchanged, any other in its default textual form;
\* timestamp and payload are the event's time and message.
EntryConstruction ==
    logCall.fired =>
        /\ ~logCall.panic
        /\ DOMAIN LogEntry.Labels = DOMAIN event.Data
        /\ \A k \in DOMAIN event.Data :
              /\ LogEntry.Labels[k] \in STRING
              /\ LogEntry.Labels[k] = ClaimText(event.Data[k])
        /\ LogEntry.Timestamp = event.Time
        /\ LogEntry.Payload = event.Message

\* an entry with a text field and an integer field
EntryWitness ==
    /\ logCall.fired
    /\ DOMAIN event.Data = {"user", "req"}
    /\ event.Data["user"] = StrVal("howard")
    /\ event.Data["req"] = IntVal(42)
    /\ LogEntry.Labels["req"] = "42"
    /\ event.Time = 2

\* C9: the report's error text is the event's message, its user the text of
\* the field "user" or empty when there is none, its stack the sanitized
\* capture: the header and the application's frames.
ReportConstruction ==
    (errCall.fired /\ ~errCall.panic) =>
        /\ ErrReport.Error = event.Message
        /\ ErrReport.User = (IF "user" \in DOMAIN event.Data
                             THEN ClaimText(event.Data["user"]) ELSE "")
        /\ ErrReport.Stack = chopstack(stack).out
        /\ \E app \in AppFrames :
              /\ ErrReport.Stack = Join(<<Header>> \o app)
              /\ \E k \in 0..MaxInternal : stack = Join(StackLines(k, app))

\* a report with a user that is not text, next to another field
ReportWitness ==
    /\ errCall.fired
    /\ event.Level = "error"
    /\ event.Message = "send user err: do bar: do foo"
    /\ DOMAIN event.Data = {"user", "req"}
    /\ event.Data["user"] = IntVal(42)
    /\ ErrReport.User = "42"
    /\ stack = Join(StackLines(2, <<MainCall, Loc, <<>> >>))

\* C10 as stated: once a hook is constructed, no step changes the levels it
\* accepts.
ConfigImmutable ==
    [][/\ (logHook # NoHook /\ logHook' = logHook) => AcceptSet(logHook)' = AcceptSet(logHook)
       /\ (errHook # NoHook /\ errHook' = errHook) => AcceptSet(errHook)' = AcceptSet(errHook)]_vars

====
